---- MODULE Spec2Model ----
(***************************************************************************)
(* Model of ninja_extra/controllers/base.py: the controller descriptor     *)
(* (APIController), the controller base class (ControllerBase) and its     *)
(* permission chain.                                                       *)
(*                                                                         *)
(* Python strings are sequences of one-character strings, so that          *)
(* str.lower, str.replace, str.lstrip and "/".join are computed, not       *)
(* assumed.  None is the string "None", the NOT_SET sentinel the string    *)
(* "NOT_SET".                                                              *)
(***************************************************************************)
EXTENDS Integers, Sequences, FiniteSets, TLC

\* ------------------------------------------------------------------ bounds
MaxCalls == 2
MaxPerms == 3
MaxStr == 1
MaxOps == 2

\* ----------------------------------------------------------------- strings
None == "None"
NOT_SET == "NOT_SET"

UpperLetters ==
  <<"A","B","C","D","E","F","G","H","I","J","K","L","M",
    "N","O","P","Q","R","S","T","U","V","W","X","Y","Z">>
LowerLetters ==
  <<"a","b","c","d","e","f","g","h","i","j","k","l","m",
    "n","o","p","q","r","s","t","u","v","w","x","y","z">>

\* str.lower() on one character
LowerChar(c) ==
  IF \E i \in 1..26 : UpperLetters[i] = c
  THEN LowerLetters[CHOOSE i \in 1..26 : UpperLetters[i] = c]
  ELSE c

\* str.lower()
lower(s) == [i \in 1..Len(s) |-> LowerChar(s[i])]

\* s[from:] for a 1-based from
StrFrom(s, from) == SubSeq(s, from, Len(s))

\* str.startswith
StartsWith(s, p) == Len(s) >= Len(p) /\ SubSeq(s, 1, Len(p)) = p

\* str.replace(old, new), old non-empty: leftmost non-overlapping occurrences
RECURSIVE replace(_, _, _)
replace(s, old, new) ==
  IF Len(s) < Len(old) THEN s
  ELSE IF StartsWith(s, old)
       THEN new \o replace(StrFrom(s, Len(old) + 1), old, new)
       ELSE <<s[1]>> \o replace(Tail(s), old, new)

\* "sub in s"
RECURSIVE Contains(_, _)
Contains(s, sub) ==
  IF Len(s) < Len(sub) THEN FALSE
  ELSE StartsWith(s, sub) \/ Contains(Tail(s), sub)

\* str.lstrip(chars) for a one-character chars
RECURSIVE lstrip(_, _)
lstrip(s, c) ==
  IF s # <<>> /\ s[1] = c THEN lstrip(Tail(s), c) ELSE s

\* sep.join(parts)
RECURSIVE join(_, _)
join(sep, parts) ==
  IF parts = <<>> THEN <<>>
  ELSE IF Len(parts) = 1 THEN parts[1]
       ELSE parts[1] \o sep \o join(sep, Tail(parts))

\* ninja.utils.normalize_path: while "//" in path: path = path.replace("//", "/")
RECURSIVE normalize_path(_)
normalize_path(path) ==
  IF Contains(path, <<"/", "/">>)
  THEN normalize_path(replace(path, <<"/", "/">>, <<"/">>))
  ELSE path

\* Python truthiness of the values that reach `auth or self.auth`:
\* None is falsy, the NOT_SET sentinel is an ordinary object and so truthy,
\* an auth object is truthy.
Truthy(v) == v # None

\* --------------------------------------------------------- class hierarchy
Descriptors == {"X", "Y"}
Apis == {"api1", "api2"}

RootClasses == {"ControllerBase", "ABC", "object"}
\* classes written by the user; "Shop" does not derive from ControllerBase
UserClasses == {"BaseController", "WidgetController", "ControllerMixin",
                "Controllers", "Shop"}
\* types made by APIController.__call__ for a class that is no ControllerBase;
\* every call makes a new type, named here by the descriptor that made it,
\* which keeps only the latest one in controller_class
WrapOf(d, cls) == IF d = "X" THEN "X:Shop" ELSE "Y:Shop"
WrapClasses == {WrapOf(d, "Shop") : d \in Descriptors}
Classes == RootClasses \cup UserClasses \cup WrapClasses

\* cls.__bases__
Bases(c) ==
  CASE c = "object" -> <<>>
    [] c = "ABC" -> <<"object">>
    [] c = "ControllerBase" -> <<"ABC">>
    [] c = "BaseController" -> <<"ControllerBase">>
    [] c = "WidgetController" -> <<"BaseController">>
    [] c = "ControllerMixin" -> <<"BaseController">>
    [] c = "Controllers" -> <<"WidgetController", "ControllerMixin">>
    [] c = "Shop" -> <<"object">>
    [] OTHER -> <<"ControllerBase", "Shop">>

\* cls.__name__ ; a wrapping type keeps the name of the class it wraps
ClassName(c) ==
  CASE c = "BaseController" ->
         <<"B","a","s","e","C","o","n","t","r","o","l","l","e","r">>
    [] c = "WidgetController" ->
         <<"W","i","d","g","e","t","C","o","n","t","r","o","l","l","e","r">>
    [] c = "ControllerMixin" ->
         <<"C","o","n","t","r","o","l","l","e","r","M","i","x","i","n">>
    [] c = "Controllers" ->
         <<"C","o","n","t","r","o","l","l","e","r","s">>
    [] c \in {"Shop"} \cup WrapClasses -> <<"S","h","o","p">>
    [] OTHER -> <<>>

\* the class attribute auto_import, where a class body sets one
ClassAutoImport(c) ==
  CASE c = "Shop" -> "False"
    [] c = "WidgetController" -> "True"
    [] OTHER -> "unset"

\* whether inject(cls) raises inside fail_silently
InjectFails(c) == c \in WrapClasses

InSeq(x, s) == \E i \in 1..Len(s) : s[i] = x

\* C3 merge of the linearizations of the bases
RECURSIVE Merge(_)
Merge(seqs) ==
  LET ne == SelectSeq(seqs, LAMBDA s : s # <<>>)
  IN IF ne = <<>> THEN <<>>
     ELSE LET good(i) == \A j \in 1..Len(ne) : ~ InSeq(ne[i][1], Tail(ne[j]))
              k == CHOOSE i \in 1..Len(ne) :
                     good(i) /\ \A j \in 1..(i - 1) : ~ good(j)
              h == ne[k][1]
          IN <<h>> \o Merge([j \in 1..Len(ne) |->
                               IF ne[j][1] = h THEN Tail(ne[j]) ELSE ne[j]])

\* the C3 linearization of a class: the class, then the merge of the
\* linearizations of its bases and of the list of its bases
RECURSIVE Linearize(_)
Linearize(c) ==
  <<c>> \o Merge([i \in 1..Len(Bases(c)) |-> Linearize(Bases(c)[i])]
                 \o (IF Bases(c) = <<>> THEN <<>> ELSE <<Bases(c)>>))

\* cls.__mro__, computed when the class is created
Mro == [c \in Classes |-> Linearize(c)]

\* inspect.getmro(cls): the method resolution order
getmro(c) == Mro[c]

RECURSIVE Flatten(_)
Flatten(ss) == IF ss = <<>> THEN <<>> ELSE Head(ss) \o Flatten(Tail(ss))

\* every class on every inheritance path, repeated once per path
RECURSIVE walk_bases(_)
walk_bases(c) ==
  <<c>> \o Flatten([i \in 1..Len(Bases(c)) |-> walk_bases(Bases(c)[i])])

\* `bases = inspect.getmro(cls)` in APIController.__call__
\* (walk_bases is the walk that follows __bases__ without the linearization)
bases(c) == getmro(c)

issubclass(c, b) == InSeq(b, getmro(c))

\* ---------------------------------------------------------- route functions
Routes == {"list_items", "get_item", "add_item", "mixin_ping", "all", "shop_index"}

S_items == <<"/","i","t","e","m","s">>
S_item_id == <<"/","i","t","e","m","s","/","{","i","t","e","m","_","i","d","}">>
S_ping == <<"p","i","n","g">>
S_shop == <<"s","h","o","p">>

\* route.route_params and route.view_func.__name__, fixed at decoration time
RouteDef(r) ==
  CASE r = "list_items" -> [path |-> S_items, methods |-> {"GET"}, auth |-> NOT_SET,
          url_name |-> None]
    [] r = "get_item" -> [path |-> S_item_id, methods |-> {"GET"}, auth |-> None,
          url_name |-> None]
    [] r = "add_item" -> [path |-> S_items, methods |-> {"POST"}, auth |-> "routeAuth",
          url_name |-> None]
    [] r = "mixin_ping" -> [path |-> S_ping, methods |-> {"GET"}, auth |-> NOT_SET,
          url_name |-> None]
    [] r = "all" -> [path |-> <<>>, methods |-> {"GET"}, auth |-> NOT_SET,
          url_name |-> None]
    [] OTHER -> [path |-> <<"/">>, methods |-> {"GET"}, auth |-> None,
          url_name |-> None]

\* the RouteFunction values of cls.__dict__, in definition order
get_route_functions(c) ==
  CASE c = "BaseController" -> <<"list_items", "get_item">>
    [] c = "WidgetController" -> <<"add_item">>
    [] c = "ControllerMixin" -> <<"mixin_ping">>
    [] c = "Controllers" -> <<"all">>
    [] c = "Shop" -> <<"shop_index">>
    [] OTHER -> <<>>

\* ------------------------------------------------------------------- state
VARIABLES
  auth,               \* APIController.auth
  tags,               \* APIController._tags
  auto_import,        \* APIController.auto_import
  registered,         \* APIController.registered
  controller_class,   \* APIController.controller_class
  _path_operations,   \* APIController._path_operations, in insertion order
  _api_controller,    \* cls._api_controller of every class
  cls_api,            \* the class attribute `api` a class owns, or "unset"
  rf_api_controller,  \* RouteFunction.api_controller
  rf_operation_id,    \* RouteFunction.route.route_params.operation_id
  registry,           \* the classes held by ControllerRegistry
  injected,           \* classes whose __init__ inject() has decorated
  uuid_seq,           \* how many uuid4 values were drawn so far
  ncalls,             \* how often each descriptor was applied to a class
  bound_api,          \* the first application a descriptor was bound to
  context,            \* ControllerBase.context of the controller instance
  invoked,            \* the permission calls made by the last check, in order
  instantiated,       \* the permission classes instantiated by the last check
  outcome,            \* how the last ControllerBase call ended
  urls                \* the entries the last urls_paths call yielded

vars == <<auth, tags, auto_import, registered, controller_class,
          _path_operations, _api_controller, cls_api, rf_api_controller,
          rf_operation_id, registry, injected, uuid_seq, ncalls, bound_api,
          context, invoked, instantiated, outcome, urls>>

descVars == <<auth, tags, auto_import, registered, controller_class,
              _path_operations, _api_controller, cls_api, rf_api_controller,
              rf_operation_id, registry, injected, uuid_seq, ncalls, bound_api>>
permVars == <<context, invoked, instantiated, outcome>>

\* ------------------------------------------------- APIController, creation
NoTags == [kind |-> "none", val |-> <<>>]
StrTags(s) == [kind |-> "str", val |-> <<s>>]
ListTags(l) == [kind |-> "list", val |-> l]
S_orders == <<"o","r","d","e","r","s">>

\* truthiness of a tags value: None, "" and [] are falsy
TagsTruthy(t) ==
  CASE t.kind = "none" -> FALSE
    [] t.kind = "str" -> t.val[1] # <<>>
    [] OTHER -> t.val # <<>>

\* the tags setter: a non-empty string becomes a one-element list
tags_setter(value) ==
  IF TagsTruthy(value) /\ value.kind = "str" THEN ListTags(value.val) ELSE value

\* the arguments the descriptors are constructed with
AuthArgs(d) == IF d = "X" THEN {"ctrlAuth"} ELSE {NOT_SET}
TagsArgs(d) ==
  IF d = "X" THEN {NoTags, ListTags(<<>>)}
  ELSE {StrTags(S_orders), ListTags(<<S_items, S_ping>>)}

\* the part of the state the permission and url operations leave alone
IdlePerm ==
  /\ context = [present |-> FALSE, request |-> None, permission_classes |-> <<>>]
  /\ invoked = <<>>
  /\ instantiated = <<>>
  /\ outcome = [op |-> "none", kind |-> "none", value |-> None]
NoUrls == [called |-> FALSE, prefix |-> <<>>, source |-> <<>>, entries |-> <<>>]
IdleUrls == urls = NoUrls

\* APIController.__init__ for every descriptor, before any class is decorated
InitDescriptors ==
  /\ auth \in [Descriptors -> UNION {AuthArgs(d) : d \in Descriptors}]
  /\ \A d \in Descriptors : auth[d] \in AuthArgs(d)
  /\ tags \in [Descriptors -> {tags_setter(t) :
                                t \in UNION {TagsArgs(d) : d \in Descriptors}}]
  /\ \A d \in Descriptors : \E t \in TagsArgs(d) : tags[d] = tags_setter(t)
  /\ auto_import = [d \in Descriptors |-> "True"]
  /\ registered = [d \in Descriptors |-> FALSE]
  /\ controller_class = [d \in Descriptors |-> None]
  /\ _path_operations = [d \in Descriptors |-> <<>>]
  /\ _api_controller = [c \in Classes |-> None]
  /\ cls_api = [c \in Classes |-> IF c = "ControllerBase" THEN None ELSE "unset"]
  /\ rf_api_controller = [r \in Routes |-> None]
  /\ rf_operation_id = [r \in Routes |-> None]
  /\ registry = {}
  /\ injected = {}
  /\ uuid_seq = 0
  /\ ncalls = [d \in Descriptors |-> 0]
  /\ bound_api = [d \in Descriptors |-> None]

Init == InitDescriptors /\ IdlePerm /\ IdleUrls

\* ---------------------------------------------- APIController, operations
\* the number of operations held by the views of a path-operation map
TotalOperations(po) ==
  LET RECURSIVE sum(_)
      sum(i) == IF i = 0 THEN 0 ELSE Len(po[i].view.operations) + sum(i - 1)
  IN sum(Len(po))

\* position of `path` among the keys of a path-operation map, 0 if absent
PathIndex(po, path) ==
  IF \E i \in 1..Len(po) : po[i].path = path
  THEN CHOOSE i \in 1..Len(po) : po[i].path = path
  ELSE 0

\* `auth or self.auth`, the auth add_api_operation hands to the PathView
operation_auth(route_auth, self_auth) ==
  IF Truthy(route_auth) THEN route_auth ELSE self_auth

\* PathView.add_operation: a new operation is appended to the view
PathView_add_operation(view, op) ==
  [view EXCEPT !.operations = Append(@, op)]

\* APIController.add_api_operation on the path-operation map `po`
add_api_operation(po, self_auth, path, methods, view_func, route_auth, operation_id, url_name) ==
  LET po1 == IF PathIndex(po, path) = 0
             THEN Append(po, [path |-> path,
                              view |-> [operations |-> <<>>, api |-> None]])
             ELSE po
      i == PathIndex(po1, path)
      op == [path |-> path, methods |-> methods, view_func |-> view_func,
             auth |-> operation_auth(route_auth, self_auth),
             operation_id |-> operation_id, url_name |-> url_name]
  IN [po1 EXCEPT ![i].view = PathView_add_operation(@, op)]

\* f"{str(uuid.uuid4())[:8]}_controller_{view_func.__name__}"; the token is
\* named by the ordinal of the uuid4 draw that made it
OperationId(draw, r) == [token |-> draw, name |-> r]

\* The loops below thread the record
\*   st = [po: the descriptor's _path_operations, ac: RouteFunction.api_controller,
\*         oid: route_params.operation_id, uuid: uuid4 draws so far]

\* APIController.add_operation_from_route_function
add_operation_from_route_function(st, self_auth, r) ==
  LET oid == OperationId(st.uuid + 1, r)
  IN [st EXCEPT !.uuid = @ + 1,
                !.oid[r] = oid,
                !.po = add_api_operation(@, self_auth, RouteDef(r).path,
                                         RouteDef(r).methods, r,
                                         RouteDef(r).auth, oid,
                                         RouteDef(r).url_name)]

\* the loop of compute_api_route_function over the route functions `rs`
RECURSIVE route_function_loop(_, _, _)
route_function_loop(st, d, rs) ==
  IF rs = <<>> THEN st
  ELSE route_function_loop(
         add_operation_from_route_function(
           [st EXCEPT !.ac[Head(rs)] = d], auth[d], Head(rs)),
         d, Tail(rs))

\* compute_api_route_function(base_cls, api_controller_instance)
compute_api_route_function(st, base_cls, d) ==
  route_function_loop(st, d, get_route_functions(base_cls))

\* the loop of __call__ over `bases`
RECURSIVE call_loop(_, _, _)
call_loop(st, d, bs) ==
  IF bs = <<>> THEN st
  ELSE call_loop(
         IF Head(bs) \notin RootClasses
         THEN compute_api_route_function(st, Head(bs), d)
         ELSE st,
         d, Tail(bs))

\* getattr(cls, "auto_import", default)
getattr_auto_import(c, default) ==
  LET m == getmro(c)
  IN IF \E i \in 1..Len(m) : ClassAutoImport(m[i]) # "unset"
     THEN ClassAutoImport(m[CHOOSE i \in 1..Len(m) :
              ClassAutoImport(m[i]) # "unset"
              /\ \A j \in 1..(i - 1) : ClassAutoImport(m[j]) = "unset"])
     ELSE default

\* str(cls.__name__).lower().replace("controller", "")
S_controller == <<"c","o","n","t","r","o","l","l","e","r">>
default_tag(c) == replace(lower(ClassName(c)), S_controller, <<>>)

TotalCalls == ncalls["X"] + ncalls["Y"]

\* APIController.__call__(cls): the descriptor d decorates the class cls
__call__(d, cls) ==
  /\ TotalCalls < MaxCalls
  /\ LET target == IF issubclass(cls, "ControllerBase") THEN cls ELSE WrapOf(d, cls)
         st == call_loop([po |-> _path_operations[d], ac |-> rf_api_controller,
                          oid |-> rf_operation_id, uuid |-> uuid_seq],
                         d, bases(target))
     IN /\ auto_import' = [auto_import EXCEPT ![d] = getattr_auto_import(cls, @)]
        /\ _api_controller' = [_api_controller EXCEPT ![target] = d]
        /\ tags' = [tags EXCEPT ![d] =
                      IF TagsTruthy(@) THEN @
                      ELSE tags_setter(ListTags(<<default_tag(target)>>))]
        /\ _path_operations' = [_path_operations EXCEPT ![d] = st.po]
        /\ rf_api_controller' = st.ac
        /\ rf_operation_id' = st.oid
        /\ uuid_seq' = st.uuid
        /\ injected' = IF InjectFails(target) THEN injected
                       ELSE injected \cup {target}
        /\ controller_class' = [controller_class EXCEPT ![d] = target]
        /\ registry' = registry \cup {target}
        /\ ncalls' = [ncalls EXCEPT ![d] = @ + 1]
  /\ UNCHANGED <<auth, registered, cls_api, bound_api, context, invoked,
                 instantiated, outcome, urls>>

\* PathView.set_api_instance: the view takes the application
PathView_set_api_instance(view, api) == [view EXCEPT !.api = api]

\* APIController.set_api_instance(api); with no controller class the
\* attribute assignment on None raises before anything changes
set_api_instance(d, api) ==
  /\ controller_class[d] # None
  /\ cls_api' = [cls_api EXCEPT ![controller_class[d]] = api]
  /\ _path_operations' = [_path_operations EXCEPT ![d] =
        [i \in 1..Len(@) |->
           [@[i] EXCEPT !.view = PathView_set_api_instance(@, api)]]]
  /\ bound_api' = [bound_api EXCEPT ![d] = IF @ = None THEN api ELSE @]
  /\ UNCHANGED <<auth, tags, auto_import, registered, controller_class,
                 _api_controller, rf_api_controller, rf_operation_id, registry,
                 injected, uuid_seq, ncalls, context, invoked, instantiated,
                 outcome, urls>>

Next ==
  \/ \E d \in Descriptors, cls \in UserClasses : __call__(d, cls)
  \/ \E d \in Descriptors, api \in Apis : set_api_instance(d, api)

Spec == Init /\ [][Next]_vars

\* --------------------------------------------------- APIController, urls
PathAlphabet == {"/", "{", "}", "a"}
StringsUpTo(alphabet, n) == UNION {[1..k -> alphabet] : k \in 0..n}
PathInputs == StringsUpTo(PathAlphabet, MaxStr) \cup {S_items, S_item_id}
PrefixInputs == {<<>>, S_shop, <<"/", "s">>, <<"s", "/">>}
\* a view function and the url_name its route was declared with
ViewInputs == {[view_func |-> "get_item", url_name |-> "item-detail"]}

\* a caller registers one operation with add_api_operation
AddApiOperation(d, path, v) ==
  /\ TotalOperations(_path_operations[d]) < MaxOps
  /\ _path_operations' = [_path_operations EXCEPT ![d] =
        add_api_operation(@, auth[d], path, {"GET"}, v.view_func, NOT_SET,
                          None, v.url_name)]
  /\ UNCHANGED <<auth, tags, auto_import, registered, controller_class,
                 _api_controller, cls_api, rf_api_controller, rf_operation_id,
                 registry, injected, uuid_seq, ncalls, bound_api, context,
                 invoked, instantiated, outcome, urls>>

\* url_route without the final lstrip("/")
url_route_no_lstrip(prefix, path) ==
  LET translated == replace(replace(path, <<"{">>, <<"<">>), <<"}">>, <<">">>)
      parts == SelectSeq(<<prefix, translated>>, LAMBDA p : p # <<>>)
  IN normalize_path(join(<<"/">>, parts))

\* the route of one path: the body of the outer loop of urls_paths
url_route(prefix, path) ==
  LET translated == replace(replace(path, <<"{">>, <<"<">>), <<"}">>, <<">">>)
      parts == SelectSeq(<<prefix, translated>>, LAMBDA p : p # <<>>)
  IN lstrip(normalize_path(join(<<"/">>, parts)), "/")

\* the entries urls_paths yields for the path-operation map `po`
url_entries(po, prefix) ==
  Flatten([i \in 1..Len(po) |->
             [k \in 1..Len(po[i].view.operations) |->
                [route |-> url_route(prefix, po[i].path),
                 view |-> po[i].path,
                 name |-> po[i].view.operations[k].url_name]]])

\* APIController.urls_paths(prefix), run to the end of the iterator
urls_paths(d, prefix) ==
  /\ urls' = [called |-> TRUE, prefix |-> prefix,
              source |-> _path_operations[d],
              entries |-> url_entries(_path_operations[d], prefix)]
  /\ UNCHANGED <<descVars, permVars>>

NextUrls ==
  \/ \E d \in {"X"}, path \in PathInputs, v \in ViewInputs :
        AddApiOperation(d, path, v)
  \/ \E d \in {"X"}, prefix \in PrefixInputs : urls_paths(d, prefix)

InitUrls == Init /\ tags["X"] = NoTags /\ tags["Y"] = ListTags(<<S_orders>>)

SpecUrls == InitUrls /\ [][NextUrls]_vars

\* ------------------------------------------- ControllerBase, permissions
PermClasses == {"AllowAny", "IsAuthenticated", "IsOwner", "ReadOnly"}
\* what a lookup can find; "empty_cart" is an object whose truth value is false
Objects == {"own_order", "other_order", "empty_cart"}
ObjTruthy(o) == o \notin {None, "empty_cart"}

\* permission.has_permission(request, controller)
has_permission(p, request) ==
  CASE p = "AllowAny" -> TRUE
    [] p = "IsAuthenticated" -> FALSE
    [] p = "IsOwner" -> TRUE
    [] OTHER -> FALSE

\* permission.has_object_permission(request, controller, obj)
has_object_permission(p, request, obj) ==
  CASE p = "AllowAny" -> TRUE
    [] p = "IsAuthenticated" -> TRUE
    [] p = "IsOwner" -> obj = "own_order"
    [] OTHER -> FALSE

\* getattr(permission, "message", None)
permission_message(p) ==
  CASE p = "IsAuthenticated" -> "login required"
    [] p = "IsOwner" -> "not the owner"
    [] OTHER -> None

Contexts ==
  {[present |-> FALSE, request |-> None, permission_classes |-> <<>>]}
  \cup [present : {TRUE}, request : {None, "request"},
        permission_classes : StringsUpTo(PermClasses, MaxPerms)]

InitPerm ==
  /\ InitDescriptors
  /\ tags["X"] = NoTags /\ tags["Y"] = ListTags(<<S_orders>>)
  /\ context \in Contexts
  /\ invoked = <<>>
  /\ instantiated = <<>>
  /\ outcome = [op |-> "none", kind |-> "none", value |-> None]
  /\ IdleUrls

\* `self.context and self.context.request`, the guard of both checks
\* (context_only is the guard without the test of the request)
context_only == context.present
context_and_request == context.present /\ context.request # None

\* the answer of one permission instance to one check
permission_answer(p, method, obj) ==
  IF method = "has_permission"
  THEN has_permission(p, context.request)
  ELSE has_object_permission(p, context.request, obj)

NoCheck == [invoked |-> <<>>, instantiated |-> <<>>, raised |-> FALSE, message |-> None]

\* a loop that asks every permission before it denies with the first failure
RECURSIVE permission_loop_all(_, _, _, _)
permission_loop_all(ps, st, method, obj) ==
  IF ps = <<>> THEN st
  ELSE LET p == Head(ps)
           st1 == [st EXCEPT !.instantiated = Append(@, p)]
       IN IF context.present /\ context.request # None
          THEN LET st2 == [st1 EXCEPT !.invoked =
                             Append(@, [permission |-> p, method |-> method, obj |-> obj])]
               IN IF ~ permission_answer(p, method, obj) /\ ~ st.raised
                  THEN permission_loop_all(Tail(ps),
                         [st2 EXCEPT !.raised = TRUE, !.message = permission_message(p)],
                         method, obj)
                  ELSE permission_loop_all(Tail(ps), st2, method, obj)
          ELSE permission_loop_all(Tail(ps), st1, method, obj)

\* the loop of check_permissions / check_object_permissions over
\* _get_permissions(): each class is instantiated when the loop reaches it,
\* and permission_denied leaves the loop by raising
RECURSIVE permission_loop(_, _, _, _)
permission_loop(ps, st, method, obj) ==
  IF ps = <<>> THEN st
  ELSE LET p == Head(ps)
           st1 == [st EXCEPT !.instantiated = Append(@, p)]
       IN IF context_and_request
          THEN LET st2 == [st1 EXCEPT !.invoked =
                             Append(@, [permission |-> p, method |-> method, obj |-> obj])]
               IN IF ~ permission_answer(p, method, obj)
                  THEN [st2 EXCEPT !.raised = TRUE, !.message = permission_message(p)]
                  ELSE permission_loop(Tail(ps), st2, method, obj)
          ELSE permission_loop(Tail(ps), st1, method, obj)

\* the permission classes _get_permissions walks: none without a context
_get_permissions == IF ~ context.present THEN <<>> ELSE context.permission_classes

\* the run of one check and what it leaves behind
run_check(method, obj) == permission_loop(_get_permissions, NoCheck, method, obj)

Finish(op, st, value) ==
  /\ invoked' = st.invoked
  /\ instantiated' = st.instantiated
  /\ outcome' = IF st.raised
                THEN [op |-> op, kind |-> "PermissionDenied", value |-> st.message]
                ELSE [op |-> op, kind |-> "returned", value |-> value]
  /\ UNCHANGED <<descVars, context, urls>>

\* ControllerBase.check_permissions()
check_permissions ==
  Finish("check_permissions", run_check("has_permission", None), None)

\* ControllerBase.check_object_permissions(obj)
check_object_permissions(obj) ==
  Finish("check_object_permissions", run_check("has_object_permission", obj), None)

\* ControllerBase.get_object_or_none(klass, **kwargs); `found` is what the
\* lookup returns, None when nothing matches
get_object_or_none(found) ==
  IF ObjTruthy(found)
  THEN Finish("get_object_or_none", run_check("has_object_permission", found), found)
  ELSE Finish("get_object_or_none", NoCheck, found)

\* ControllerBase.get_object_or_exception(klass, ...); the lookup raises
\* NotFound when nothing matches
get_object_or_exception(found) ==
  IF found = None
  THEN /\ invoked' = <<>>
       /\ instantiated' = <<>>
       /\ outcome' = [op |-> "get_object_or_exception", kind |-> "NotFound",
                      value |-> None]
       /\ UNCHANGED <<descVars, context, urls>>
  ELSE Finish("get_object_or_exception",
              run_check("has_object_permission", found), found)

NextPerm ==
  \/ check_permissions
  \/ \E obj \in Objects : check_object_permissions(obj)
  \/ \E found \in Objects \cup {None} : get_object_or_none(found)
  \/ \E found \in Objects \cup {None} : get_object_or_exception(found)

SpecPerm == InitPerm /\ [][NextPerm]_vars

\* ================================================================ claims
\* every class a class inherits from, itself included
RECURSIVE Ancestors(_)
Ancestors(c) ==
  {c} \cup UNION {Ancestors(Bases(c)[i]) : i \in 1..Len(Bases(c))}

\* the route functions declared in the classes a class inherits from
DeclaredRoutes(c) ==
  {r \in Routes : \E a \in Ancestors(c) \ RootClasses :
       InSeq(r, get_route_functions(a))}

\* the operations of a path-operation map, as <<path index, position>>
OperationSlots(po) ==
  UNION {{<<i, k>> : k \in 1..Len(po[i].view.operations)} : i \in 1..Len(po)}

OperationsOf(po, r) ==
  {s \in OperationSlots(po) : po[s[1]].view.operations[s[2]].view_func = r}

\* C1: after a fresh descriptor finalizes a class, its path-operation map
\* holds exactly one operation for every route function declared in the
\* classes the class inherits from, and no other; a route of a common
\* ancestor under diamond inheritance is there once.
C1_OneOperationPerRoute ==
  \A d \in Descriptors :
    ncalls[d] = 1 =>
      LET po == _path_operations[d]
          routes == DeclaredRoutes(controller_class[d])
      IN /\ TotalOperations(po) = Cardinality(routes)
         /\ \A r \in Routes :
              Cardinality(OperationsOf(po, r)) = IF r \in routes THEN 1 ELSE 0

C1_Witness ==
  /\ ncalls["X"] = 1
  /\ controller_class["X"] = "Controllers"
  /\ TotalOperations(_path_operations["X"]) = 5
  /\ Cardinality(OperationsOf(_path_operations["X"], "list_items")) = 1

\* the class a descriptor ends up with when it decorates cls
FinalizedClass(d, cls) ==
  IF issubclass(cls, "ControllerBase") THEN cls ELSE WrapOf(d, cls)

\* C2: applying a descriptor to a class it has already finalized leaves the
\* number of operations in its path-operation map unchanged.
C2_SecondRegistrationKeepsCount ==
  [][\A d \in Descriptors, cls \in UserClasses :
       (controller_class[d] = FinalizedClass(d, cls) /\ __call__(d, cls))
         => TotalOperations(_path_operations'[d])
              = TotalOperations(_path_operations[d])]_vars

\* C3: once a descriptor is bound to an application, a later
\* set_api_instance leaves the controller class and the PathViews with the
\* application of the first binding.
C3_BindsOnce ==
  [][\A d \in Descriptors, api \in Apis :
       (bound_api[d] # None /\ set_api_instance(d, api))
         => /\ cls_api'[controller_class[d]] = bound_api[d]
            /\ \A i \in 1..Len(_path_operations'[d]) :
                 _path_operations'[d][i].view.api = bound_api[d]]_vars

\* the calls a request-level check makes when it asks the first n classes
AskedFirst(ps, n, method, obj) ==
  [i \in 1..n |-> [permission |-> ps[i], method |-> method, obj |-> obj]]

\* C4: with a context and a request, check_permissions asks the permission
\* classes in declaration order up to the first that refuses, raises
\* PermissionDenied with the message of that one and asks none after it; if
\* none refuses it returns and has asked them all.
C4_ShortCircuit ==
  (outcome.op = "check_permissions" /\ context.present /\ context.request # None) =>
    LET ps == context.permission_classes
        refusing == {i \in 1..Len(ps) : ~ has_permission(ps[i], context.request)}
    IN IF refusing = {}
       THEN /\ outcome.kind = "returned"
            /\ invoked = AskedFirst(ps, Len(ps), "has_permission", None)
       ELSE LET first == CHOOSE i \in refusing : \A j \in refusing : i <= j
            IN /\ outcome.kind = "PermissionDenied"
               /\ outcome.value = permission_message(ps[first])
               /\ invoked = AskedFirst(ps, first, "has_permission", None)

C4_Witness ==
  /\ outcome.op = "check_permissions"
  /\ context.request # None
  /\ context.permission_classes = <<"AllowAny", "IsAuthenticated", "ReadOnly">>
  /\ outcome.kind = "PermissionDenied"
  /\ outcome.value = "login required"
  /\ Len(invoked) = 2

\* C5: get_object_or_none asks no permission when the lookup finds nothing,
\* and never returns a found object that some permission class of the
\* request refuses at object level.
C5_FoundObjectIsChecked ==
  outcome.op = "get_object_or_none" =>
    /\ (outcome.kind = "returned" /\ outcome.value = None) => invoked = <<>>
    /\ (outcome.kind = "returned" /\ outcome.value # None
          /\ context.present /\ context.request # None)
         => \A i \in 1..Len(context.permission_classes) :
              has_object_permission(context.permission_classes[i],
                                    context.request, outcome.value)

\* C6: every operation carries the auth of its route when the route gave
\* one (None included) and the auth of the descriptor only when the route's
\* auth is NOT_SET.
C6_RouteAuthWins ==
  \A d \in Descriptors :
    \A s \in OperationSlots(_path_operations[d]) :
      LET op == _path_operations[d][s[1]].view.operations[s[2]]
          given == RouteDef(op.view_func).auth
      IN op.auth = IF given # NOT_SET THEN given ELSE auth[d]

\* C7: without a context, or with a context that has no request, both
\* checks return without raising and without asking any permission.
C7_NoContextNoCheck ==
  (outcome.op \in {"check_permissions", "check_object_permissions"}
     /\ (~ context.present \/ context.request = None))
    => (outcome.kind = "returned" /\ invoked = <<>>)

C7_Witness ==
  /\ outcome.op = "check_object_permissions"
  /\ context.present
  /\ context.request = None
  /\ context.permission_classes = <<"ReadOnly", "IsOwner">>
  /\ outcome.kind = "returned"

\* the non-empty pieces of s between "/" characters
RECURSIVE Segments(_, _)
Segments(s, cur) ==
  IF s = <<>> THEN (IF cur = <<>> THEN <<>> ELSE <<cur>>)
  ELSE IF Head(s) = "/"
       THEN (IF cur = <<>> THEN <<>> ELSE <<cur>>) \o Segments(Tail(s), <<>>)
       ELSE Segments(Tail(s), Append(cur, Head(s)))

\* a path with "{" turned into "<" and "}" into ">"
AngleBrackets(s) ==
  [i \in 1..Len(s) |-> CASE s[i] = "{" -> "<" [] s[i] = "}" -> ">" [] OTHER -> s[i]]

S_shop_item_id ==
  <<"s","h","o","p","/","i","t","e","m","s","/","<","i","t","e","m","_","i","d",">">>

\* C8: urls_paths yields for every path exactly one entry per operation of
\* that path and nothing else; each route has no "//", does not begin with
\* "/", and is made of the segments of the prefix followed by those of the
\* path with its braces turned into angle brackets; "/items/{item_id}"
\* under "shop" gives "shop/items/<item_id>".
C8_UrlsPaths ==
  urls.called =>
    LET po == urls.source
        es == urls.entries
    IN /\ Len(es) = TotalOperations(po)
       /\ \A i \in 1..Len(po) :
            Cardinality({j \in 1..Len(es) : es[j].view = po[i].path})
              = Len(po[i].view.operations)
       /\ \A j \in 1..Len(es) :
            /\ ~ Contains(es[j].route, <<"/", "/">>)
            /\ ~ StartsWith(es[j].route, <<"/">>)
            /\ Segments(es[j].route, <<>>)
                 = Segments(urls.prefix, <<>>)
                     \o Segments(AngleBrackets(es[j].view), <<>>)
            /\ (urls.prefix = S_shop /\ es[j].view = S_item_id)
                 => es[j].route = S_shop_item_id

C8_Witness ==
  /\ urls.called
  /\ urls.prefix = S_shop
  /\ Len(urls.entries) = 2
  /\ urls.entries[1].route = S_shop_item_id
  /\ urls.entries[2].view = <<"a">>
  /\ urls.entries[2].route = <<"s","h","o","p","/","a">>

\* s without the suffix suf, when it ends with it
strip_suffix(s, suf) ==
  IF Len(s) >= Len(suf) /\ SubSeq(s, Len(s) - Len(suf) + 1, Len(s)) = suf
  THEN SubSeq(s, 1, Len(s) - Len(suf))
  ELSE s

\* C9: finalizing a class leaves supplied tags as they are, and gives a
\* descriptor without tags the one tag that is the lowercased class name
\* without its suffix "controller", nothing else removed.
C9_DefaultTag ==
  [][\A d \in Descriptors, cls \in UserClasses :
       __call__(d, cls) =>
         tags'[d] = IF TagsTruthy(tags[d]) THEN tags[d]
                    ELSE ListTags(<<strip_suffix(lower(ClassName(cls)),
                                                 S_controller)>>)]_vars

\* C10: once descriptor d has finalized class c, the route functions of the
\* classes c inherits from keep api_controller = d when another descriptor
\* finalizes another class.
C10_BackReferenceKept ==
  [][\A d \in Descriptors, y \in Descriptors, c \in Classes, cls \in UserClasses :
       (y # d /\ _api_controller[c] = d /\ FinalizedClass(y, cls) # c
          /\ __call__(y, cls))
         => \A r \in DeclaredRoutes(c) :
              rf_api_controller[r] = d => rf_api_controller'[r] = d]_vars

====
